---- MODULE Spec2Model ----
(***************************************************************************)
(* Model of Part3/datatypes/src/main.rs: the "Data Types" examples.        *)
(*                                                                         *)
(* The functions of the crate are pure; the state of the model is the      *)
(* stack frame of a host (a #[test] function) that binds locals, calls the *)
(* functions and keeps what they returned.  A call that panics unwinds the *)
(* frame: nothing more runs in it.  When a frame has ended the host is     *)
(* idle and may open another one.                                          *)
(***************************************************************************)
EXTENDS Integers, Sequences, FiniteSets, TLC

-----------------------------------------------------------------------------
(* Bounds of the model *)

\* usize indices offered to the array accessors: 0..MaxIndex
MaxIndex == 10

\* i32 array elements are drawn from -1..MaxElem
MaxElem == 1

-----------------------------------------------------------------------------
(* Program constants *)

\* width of u8, the operand type of overflow_helpers_example
U8_BITS == 8

\* u32::MAX is 4294967295 = U32_MAX_DIV10 * 10 + U32_MAX_MOD10 (kept split:
\* the whole exceeds TLC's 32-bit integers)
U32_MAX_DIV10 == 429496729

U32_MAX_MOD10 == 5

\* i32::MAX
I32_MAX == 2147483647

\* length of the array type [i32; 5]
ARRAY_LEN == 5

U8_MAX == 2^U8_BITS - 1
U8 == 0..U8_MAX
I32_MIN == -I32_MAX - 1

-----------------------------------------------------------------------------
(* Option<T>, and the outcome of a call: a normal return or a panic *)

None == [some |-> FALSE]
Some(v) == [some |-> TRUE, val |-> v]

Returned(v) == [kind |-> "return", val |-> v]
Panic == [kind |-> "panic"]
NotCalled == [kind |-> "not_called"]

-----------------------------------------------------------------------------
(* 3) Integer overflow helpers: u8 methods of the standard library *)

\* faulty variant: reduces modulo u8::MAX instead of 2^8
wrapping_add_mod_max(x, y) == (x + y) % U8_MAX

\* u8::wrapping_add: the sum reduced modulo 2^8
wrapping_add(x, y) == (x + y) % (2^U8_BITS)

\* faulty variant: the value is not wrapped
overflowing_add_unwrapped(x, y) == <<x + y, x + y > U8_MAX>>

\* faulty variant: the flag is raised at a sum of exactly u8::MAX
overflowing_add_flag_inclusive(x, y) == <<(x + y) % (2^U8_BITS), x + y >= U8_MAX>>

\* u8::overflowing_add: the wrapped sum and whether the true sum left u8
overflowing_add(x, y) == <<(x + y) % (2^U8_BITS), x + y > U8_MAX>>

\* faulty variant: None already at a sum of exactly u8::MAX
checked_add_inclusive(x, y) == IF x + y >= U8_MAX THEN None ELSE Some(x + y)

\* u8::checked_add: None when the true sum leaves u8
checked_add(x, y) == IF x + y > U8_MAX THEN None ELSE Some(x + y)

\* faulty variant: wraps instead of clamping
saturating_add_wraps(x, y) == (x + y) % (2^U8_BITS)

\* u8::saturating_add: the true sum clamped to u8::MAX
saturating_add(x, y) == IF x + y > U8_MAX THEN U8_MAX ELSE x + y

\* faulty variant: a plain `x + y` on u8 with overflow checks on
overflow_helpers_example_plain_add(x, y) ==
    IF x + y > U8_MAX
    THEN Panic
    ELSE Returned(<<x + y, Some(x + y), <<x + y, FALSE>>, x + y>>)

overflow_helpers_example(x, y) ==
    LET wrapping == wrapping_add(x, y)
        checked == checked_add(x, y)
        overflowing == overflowing_add(x, y)
        saturating == saturating_add(x, y)
    IN Returned(<<wrapping, checked, overflowing, saturating>>)

-----------------------------------------------------------------------------
(* 8) Arrays.  Rust indexes from 0, a TLA+ sequence from 1; a reference    *)
(* into the array is modelled by the (0-based) position it points at.      *)

\* faulty variant: the bounds test is one short
get_short(a, index) == IF index < Len(a) - 1 THEN Some(index) ELSE None

\* <[i32]>::get: a reference to the element, or None out of bounds
get(a, index) == IF index < Len(a) THEN Some(index) ELSE None

\* Option<&i32>::copied: the referenced element by value
copied(a, o) == IF o.some THEN Some(a[o.val + 1]) ELSE None

array_get_safe(a, index) == Returned(copied(a, get(a, index)))

\* faulty variant: the default value instead of a panic
array_index_unsafe_or_default(a, index) ==
    IF index < Len(a) THEN Returned(a[index + 1]) ELSE Returned(0)

\* faulty variant: the index is clamped to the last element
array_index_unsafe_clamped(a, index) ==
    IF index < Len(a) THEN Returned(a[index + 1]) ELSE Returned(a[Len(a)])

\* a[index]: the bounds check of Index panics out of bounds
array_index_unsafe(a, index) ==
    IF index < Len(a) THEN Returned(a[index + 1]) ELSE Panic

array_make_and_access ==
    LET a == <<1, 2, 3, 4, 5>>
        first == array_index_unsafe(a, 0)
        second == array_index_unsafe(a, 1)
    IN IF first.kind = "panic" \/ second.kind = "panic"
       THEN Panic
       ELSE Returned(<<first.val, second.val>>)

array_type_annotation == <<1, 2, 3, 4, 5>>

array_repeated_init == [k \in 1..ARRAY_LEN |-> 3]

-----------------------------------------------------------------------------
(* 1) Type annotations and parse.  A &str is a sequence of characters.     *)

DigitOf ==
    ("0" :> 0) @@ ("1" :> 1) @@ ("2" :> 2) @@ ("3" :> 3) @@ ("4" :> 4) @@
    ("5" :> 5) @@ ("6" :> 6) @@ ("7" :> 7) @@ ("8" :> 8) @@ ("9" :> 9)

RECURSIVE parse_digits(_, _)
\* the digit loop of u32::from_str: acc * 10 + digit, checked
parse_digits(s, acc) ==
    IF s = <<>> THEN Some(acc)
    ELSE IF Head(s) \notin DOMAIN DigitOf THEN None
    ELSE IF acc > U32_MAX_DIV10 THEN None
    ELSE IF acc = U32_MAX_DIV10 /\ DigitOf[Head(s)] > U32_MAX_MOD10 THEN None
    ELSE parse_digits(Tail(s), acc * 10 + DigitOf[Head(s)])

\* str::parse::<u32>: Err (here None) on an empty, non-numeric or too large input
parse(s) ==
    IF s = <<>> THEN None
    ELSE IF Head(s) = "+" THEN (IF Tail(s) = <<>> THEN None ELSE parse_digits(Tail(s), 0))
    ELSE parse_digits(s, 0)

\* Result::expect: the value, or a panic with the message
expect(r) == IF r.some THEN Returned(r.val) ELSE Panic

parse_guess_with_type_annotation == expect(parse(<<"4", "2">>))

-----------------------------------------------------------------------------
(* 4) Numeric operations: the i32 components (f64 arithmetic has no panic) *)

Abs(n) == IF n < 0 THEN -n ELSE n

\* i32 `/`: truncates toward zero; panics on a zero divisor or on overflow
i32_div(n, d) ==
    IF d = 0 \/ (n = I32_MIN /\ d = -1) THEN Panic
    ELSE IF (n < 0) # (d < 0) THEN Returned(-(Abs(n) \div Abs(d)))
    ELSE Returned(Abs(n) \div Abs(d))

numeric_operations ==
    LET sum == 5 + 10
        product == 4 * 30
        truncated == i32_div(-5, 3)
    IN IF truncated.kind = "panic"
       THEN Panic
       ELSE Returned(<<sum, product, truncated.val>>)

-----------------------------------------------------------------------------
(* The host's frame *)

VARIABLES
    op,        \* the step the host took last
    x, y,      \* the u8 operands bound in the frame
    res,       \* outcome of overflow_helpers_example(x, y) in the frame
    a,         \* the frame's array local, <<>> when it has none
    a_let,     \* the array as its `let` built it
    safe,      \* last array_get_safe(&a, i) of the frame: [index, out]
    unsafe,    \* last array_index_unsafe(&a, i) of the frame: [index, out]
    misc,      \* outcome of the argument-less example called in the frame
    panicked   \* the frame is unwinding

vars == <<op, x, y, res, a, a_let, safe, unsafe, misc, panicked>>

Elems == -1..MaxElem
Arrays == [1..ARRAY_LEN -> Elems] \cup {array_type_annotation, array_repeated_init}
Indices == 0..MaxIndex

NoCall == [index |-> 0, out |-> NotCalled]

Init ==
    /\ op = "start"
    /\ x = 0 /\ y = 0 /\ res = NotCalled
    /\ a = <<>> /\ a_let = <<>>
    /\ safe = NoCall /\ unsafe = NoCall
    /\ misc = NotCalled
    /\ panicked = FALSE

\* a fresh frame calling overflow_helpers_example(x0, y0), as
\* test_overflow_helpers does with (250, 10)
Call_overflow_helpers_example ==
    /\ op = "start"
    /\ \E x0 \in U8, y0 \in U8 :
          /\ x' = x0 /\ y' = y0
          /\ res' = overflow_helpers_example(x0, y0)
    /\ op' = "overflow_helpers_example"
    /\ a' = <<>> /\ a_let' = <<>>
    /\ safe' = NoCall /\ unsafe' = NoCall
    /\ misc' = NotCalled
    /\ panicked' = (res'.kind = "panic")

\* `let a = [...]` opening a fresh frame
Let_a ==
    /\ op = "start"
    /\ \E arr \in Arrays : a' = arr /\ a_let' = arr
    /\ op' = "let_a"
    /\ x' = 0 /\ y' = 0 /\ res' = NotCalled
    /\ safe' = NoCall /\ unsafe' = NoCall
    /\ misc' = NotCalled
    /\ panicked' = FALSE

\* array_get_safe(&a, i) in the running frame
Call_array_get_safe ==
    /\ a # <<>> /\ ~panicked
    /\ \E i \in Indices : safe' = [index |-> i, out |-> array_get_safe(a, i)]
    /\ op' = "array_get_safe"
    /\ panicked' = (safe'.out.kind = "panic")
    /\ UNCHANGED <<x, y, res, a, a_let, unsafe, misc>>

\* array_index_unsafe(&a, i) in the running frame
Call_array_index_unsafe ==
    /\ a # <<>> /\ ~panicked
    /\ \E i \in Indices : unsafe' = [index |-> i, out |-> array_index_unsafe(a, i)]
    /\ op' = "array_index_unsafe"
    /\ panicked' = (unsafe'.out.kind = "panic")
    /\ UNCHANGED <<x, y, res, a, a_let, safe, misc>>

\* a fresh frame calling one of the argument-less examples
CallExample(name, out) ==
    /\ op = "start"
    /\ op' = name
    /\ x' = 0 /\ y' = 0 /\ res' = NotCalled
    /\ a' = <<>> /\ a_let' = <<>>
    /\ safe' = NoCall /\ unsafe' = NoCall
    /\ misc' = out
    /\ panicked' = (out.kind = "panic")

Call_parse_guess_with_type_annotation ==
    CallExample("parse_guess_with_type_annotation", parse_guess_with_type_annotation)

Call_array_make_and_access ==
    CallExample("array_make_and_access", array_make_and_access)

Call_numeric_operations ==
    CallExample("numeric_operations", numeric_operations)

\* the frame ends (the test function returns, or its unwinding completes):
\* its locals are gone and the host is idle again
End_frame ==
    /\ op # "start"
    /\ op' = "start"
    /\ x' = 0 /\ y' = 0 /\ res' = NotCalled
    /\ a' = <<>> /\ a_let' = <<>>
    /\ safe' = NoCall /\ unsafe' = NoCall
    /\ misc' = NotCalled
    /\ panicked' = FALSE

Next ==
    \/ Call_overflow_helpers_example
    \/ Let_a
    \/ Call_array_get_safe
    \/ Call_array_index_unsafe
    \/ Call_parse_guess_with_type_annotation
    \/ Call_array_make_and_access
    \/ Call_numeric_operations
    \/ End_frame

Spec == Init /\ [][Next]_vars

-----------------------------------------------------------------------------
(* Properties *)

\* the frame holds a returned overflow_helpers_example(x, y)
OverflowReturned == op = "overflow_helpers_example" /\ res.kind = "return"

wrap == res.val[1]
chk == res.val[2]
ovf == res.val[3]
sat == res.val[4]

\* C1: for every x, y in 0..255 the checked component of
\* overflow_helpers_example(x, y) is None iff x + y > 255 and is Some(x + y)
\* otherwise; (250, 10) gives None and (1, 1) gives Some(2).
C1_CheckedAbsentIffOverflow ==
    OverflowReturned =>
        /\ (chk = None) <=> (x + y > 255)
        /\ (x + y <= 255) => (chk.some /\ chk.val = x + y)
        /\ (x = 250 /\ y = 10) => chk = None
        /\ (x = 1 /\ y = 1) => chk = Some(2)

C1_Witness ==
    /\ OverflowReturned
    /\ x = 250 /\ y = 10
    /\ chk = None

\* C2: for every x, y in 0..255 the wrapping component equals (x + y) mod 256,
\* that is x + y below 256 and x + y - 256 from there on; (250, 10) gives 4
\* and (255, 1) gives 0.
C2_WrappingIsSumMod256 ==
    OverflowReturned =>
        /\ wrap = (IF x + y >= 256 THEN x + y - 256 ELSE x + y)
        /\ wrap \in 0..255
        /\ (x = 250 /\ y = 10) => wrap = 4
        /\ (x = 255 /\ y = 1) => wrap = 0

C2_Witness ==
    /\ OverflowReturned
    /\ x = 255 /\ y = 1
    /\ wrap = 0

\* C3: for every x, y in 0..255 the overflowing component is the pair
\* <<(x + y) mod 256, x + y > 255>>: its value is the wrapping component of
\* the same call and its flag is true exactly when the sum exceeds 255.
C3_OverflowingIsWrapAndFlag ==
    OverflowReturned =>
        /\ ovf[1] = (IF x + y >= 256 THEN x + y - 256 ELSE x + y)
        /\ ovf[1] = wrap
        /\ ovf[2] = (x + y > 255)

C3_Witness ==
    /\ OverflowReturned
    /\ x = 250 /\ y = 10
    /\ ovf = <<4, TRUE>>

\* C4: for every x, y in 0..255 the saturating component equals
\* min(x + y, 255).
C4_SaturatingIsMin ==
    OverflowReturned =>
        /\ (x + y > 255) => sat = 255
        /\ (x + y <= 255) => sat = x + y

C4_Witness ==
    /\ OverflowReturned
    /\ x = 200 /\ y = 100
    /\ sat = 255

\* the frame holds an array and a finished array_get_safe(&a, safe.index)
SafeCalled == a # <<>> /\ safe.out.kind # "not_called"

\* the frame holds an array and a finished array_index_unsafe(&a, unsafe.index)
UnsafeCalled == a # <<>> /\ unsafe.out.kind # "not_called"

\* C5: for every 5-element array a and index i, array_get_safe(a, i) returns
\* None if i >= 5 and Some(a[i]) otherwise, and never panics; on [1,2,3,4,5]
\* index 0 gives Some(1) and index 9 gives None.
C5_GetSafe ==
    SafeCalled =>
        /\ safe.out.kind = "return"
        /\ (safe.index >= 5) => safe.out.val = None
        /\ (safe.index < 5) => safe.out.val = Some(a[safe.index + 1])
        /\ (a = <<1, 2, 3, 4, 5>> /\ safe.index = 0) => safe.out.val = Some(1)
        /\ (a = <<1, 2, 3, 4, 5>> /\ safe.index = 9) => safe.out.val = None

C5_Witness ==
    /\ SafeCalled
    /\ a = <<1, 2, 3, 4, 5>>
    /\ safe.index = 9
    /\ safe.out = Returned(None)

\* C6: for every 5-element array a and index i, array_index_unsafe(a, i)
\* panics iff i >= 5 and returns a[i] for i < 5; the panic is never turned
\* into a value.  On [1,2,3,4,5] index 1 returns 2 and index 10 panics.
C6_IndexUnsafe ==
    UnsafeCalled =>
        /\ (unsafe.out.kind = "panic") <=> (unsafe.index >= 5)
        /\ (unsafe.index < 5) => unsafe.out = Returned(a[unsafe.index + 1])
        /\ (unsafe.index >= 5) => (unsafe.out.kind # "return" /\ panicked)
        /\ (a = <<1, 2, 3, 4, 5>> /\ unsafe.index = 1) => unsafe.out = Returned(2)
        /\ (a = <<1, 2, 3, 4, 5>> /\ unsafe.index = 10) => unsafe.out = Panic

C6_Witness ==
    /\ UnsafeCalled
    /\ a = <<1, 2, 3, 4, 5>>
    /\ unsafe.index = 10
    /\ unsafe.out = Panic
    /\ panicked

\* C7: overflow_helpers_example returns normally, with all four results, for
\* every (x, y) in 0..255 x 0..255 and never panics; a frame panics only in
\* array_index_unsafe.
C7_OnlyUncheckedAccessFaults ==
    /\ (op = "overflow_helpers_example") =>
          /\ res.kind = "return"
          /\ ~panicked
          /\ Len(res.val) = 4
          /\ wrap \in U8 /\ sat \in U8 /\ ovf[1] \in U8 /\ ovf[2] \in BOOLEAN
          /\ (chk.some => chk.val \in U8)
    /\ panicked => op = "array_index_unsafe"
    /\ safe.out.kind # "panic"
    /\ misc.kind # "panic"
    /\ res.kind # "panic"

C7_Witness ==
    /\ OverflowReturned
    /\ x = 255 /\ y = 255
    /\ ~panicked
    /\ res.val = <<254, None, <<254, TRUE>>, 255>>

\* C9: the four results of one call are consistent: checked is present iff
\* the overflow flag is false iff wrapping equals saturating; without
\* overflow (a sum of exactly 255 included) all four values are x + y; with
\* overflow saturating is 255 and wrapping is x + y - 256, below x and y.
C9_FourResultsConsistent ==
    OverflowReturned =>
        /\ chk.some <=> ~ovf[2]
        /\ ~ovf[2] <=> (wrap = sat)
        /\ (x + y <= 255) =>
              /\ ~ovf[2]
              /\ wrap = x + y /\ chk = Some(x + y) /\ ovf[1] = x + y /\ sat = x + y
        /\ (x + y > 255) =>
              /\ ovf[2]
              /\ sat = 255
              /\ wrap = x + y - 256
              /\ wrap < x /\ wrap < y

C9_Witness ==
    /\ OverflowReturned
    /\ x = 250 /\ y = 5
    /\ res.val = <<255, Some(255), <<255, FALSE>>, 255>>

\* C10: array_get_safe and array_index_unsafe agree on every input: on the
\* same array and index the safe call returns Some(v) exactly when the
\* unchecked call returns v, and None exactly when the unchecked call panics;
\* neither call changes the array.
C10_SafeAndUnsafeAgree ==
    /\ a = a_let
    /\ (SafeCalled /\ UnsafeCalled /\ safe.index = unsafe.index) =>
          /\ safe.out.kind = "return"
          /\ safe.out.val.some <=> (unsafe.out.kind = "return")
          /\ safe.out.val.some => safe.out.val.val = unsafe.out.val
          /\ (safe.out.val = None) <=> (unsafe.out.kind = "panic")

C10_Witness ==
    /\ SafeCalled /\ UnsafeCalled
    /\ safe.index = unsafe.index
    /\ safe.out = Returned(None)
    /\ unsafe.out = Panic
    /\ a = a_let /\ a = <<1, 2, 3, 4, 5>>

====
